---- MODULE Spec2Model ----
\* Client-side classroom session controller (Classroom.svelte), its Svelte
\* stores (stores/classroom.ts) and the listener audio queue, as a state
\* machine.  One action per handler; server payloads are inputs.
EXTENDS Integers, Sequences, FiniteSets, TLC

\* ── Bounds ────────────────────────────────────────────────────────
NumUsers == 2
MaxQueueLen == 1
MaxSockets == 2
MaxSent == 2
MaxPolls == 1
MaxAudio == 1
MaxOverlap == 2
MaxMsgs == 2
MaxText == 2
MaxFrames == 4
MaxRaises == 2

\* ── Values ────────────────────────────────────────────────────────
NullId == 0
Null == [null |-> TRUE]
Self == 1
Users == 1..NumUsers
RoomId == 1
Modes == {"text_only", "text_and_audio"}

RECURSIVE SetToSeq(_)
SetToSeq(S) ==
  IF S = {} THEN <<>>
  ELSE LET m == CHOOSE x \in S : \A y \in S : x <= y
       IN <<m>> \o SetToSeq(S \ {m})

Range(f) == {f[i] : i \in DOMAIN f}

SeqsUpTo(S, n) == UNION {[1..k -> S] : k \in 0..n}

DistinctSeqs(S, n) == {q \in SeqsUpTo(S, n) : \A i, j \in DOMAIN q : i # j => q[i] # q[j]}

\* ClassroomUser, restricted to the fields the controller reads.
ClassroomUser(id, spk) == [user_id |-> id, is_speaker |-> spk]

\* ClassroomRoom as the server serialises it: the speaker flag of every user
\* agrees with speaker_id and the token queue holds waiting users only.
ClassroomRoom(present, spk, queue, teacher) ==
  LET ids == SetToSeq(present)
  IN [room_id |-> RoomId,
      speaker_id |-> spk,
      teacher_id |-> teacher,
      users |-> [i \in DOMAIN ids |-> ClassroomUser(ids[i], ids[i] = spk)],
      token_queue |-> queue]

RoomSnapshots(teachers) ==
  {ClassroomRoom(x[1] \cup {Self}, x[2], x[3], x[4]) :
     x \in {y \in (SUBSET (Users \ {Self})) \X (Users \cup {NullId})
                 \X DistinctSeqs(Users, MaxQueueLen) \X teachers :
              /\ y[2] \in y[1] \cup {Self, NullId}
              /\ Range(y[3]) \subseteq (y[1] \cup {Self}) \ {y[2]}}}

\* ── State ─────────────────────────────────────────────────────────
VARIABLES
  classroomState,     \* store: view state
  classroomRoom,      \* store: room record or Null
  classroomSelf,      \* store: own user record or Null
  classroomMessages,  \* store: message log
  classroomWs,        \* store: current socket id, NullId when null
  classroomError,     \* store: error text
  classroomTopics,    \* store: topic suggestions
  isHandRaised,       \* store
  currentLessonTopic, \* store
  isSpeaker,          \* derived store value, recomputed on every room/self write
  sockets,            \* socket id -> readyState
  failing,            \* sockets closed while CONNECTING (error event pending)
  sent,               \* frames sent, in order: [sock, type]
  member,             \* per socket: "none" before joined, "in", "out" after
  timers,             \* live setInterval handles
  pollInterval,       \* the handle the component remembers, NullId when null
  pollInFlight,       \* outstanding getRoom() promises
  audioContext,       \* "null" | "running" | "suspended"
  audioQueue,
  isPlayingAudio,
  blobPending,        \* pending Blob.arrayBuffer() continuations
  resumePending,      \* pending ctx.resume().then(playNextChunk) continuations
  sourcesPlaying,     \* started buffer sources whose onended has not fired
  userMode,
  speakerMode,
  speakerPipecat,     \* "null" | "connecting" | "opening" | "connected" | "failed"
  pipecatGlobals,     \* window.__pipecatWsIntercepted / ConfigSent / TextListenerAttached
  speakerBotText,     \* component: bot text of the bridge turn in progress
  currentBotText,     \* PipecatClient.currentBotText of the active client
  wrapped,            \* room sockets created through the patched window.WebSocket
  textListeners,      \* sockets carrying the interceptor's message listener
  bridgeSent,         \* frames sent on the current bridge socket
  roomStream,         \* history: room-socket bot_text chunks since the last bot_text_complete
  pc,                 \* position inside the token_changed handler
  lastOp,             \* last handler run, for the handlers the properties name
  left,               \* handleLeaveRoom ran and no join since
  hRoom, hSelf, hIsSpeaker, hChan, hSrv, hPc, hPoll  \* two-client handoff scenario

storeVars == <<classroomState, classroomRoom, classroomSelf, classroomMessages,
               classroomWs, classroomError, classroomTopics, isHandRaised,
               currentLessonTopic, isSpeaker>>
sockVars == <<sockets, failing, sent, member>>
pollVars == <<timers, pollInterval, pollInFlight>>
audioVars == <<audioContext, audioQueue, isPlayingAudio, blobPending,
               resumePending, sourcesPlaying>>
pipeVars == <<speakerMode, speakerPipecat, pipecatGlobals, speakerBotText,
              currentBotText>>
interceptVars == <<wrapped, textListeners, bridgeSent, roomStream>>
handoffVars == <<hRoom, hSelf, hIsSpeaker, hChan, hSrv, hPc, hPoll>>
vars == <<storeVars, sockVars, pollVars, audioVars, pipeVars, userMode, pc,
          lastOp, left, handoffVars, interceptVars>>

Idle == [at |-> "idle"]

\* No room-socket stream is in progress.
NoStream == [open |-> FALSE, base |-> 0, text |-> <<>>]

\* ── Derived stores ────────────────────────────────────────────────
IsSpeakerFromFlag(room, self) ==
  IF room = Null \/ self = Null THEN FALSE ELSE self.is_speaker

isSpeakerDerived(room, self) ==
  IF room = Null \/ self = Null THEN FALSE
  ELSE room.speaker_id = self.user_id

isTeacherDerived(room, self) ==
  IF room = Null \/ self = Null THEN FALSE
  ELSE room.teacher_id = self.user_id

Derive == isSpeaker' = isSpeakerDerived(classroomRoom', classroomSelf')

\* ── Reactive statements of the component ──────────────────────────
\* Without the statement that resets the mode when the token is lost.
ReactModeKept(isSp, mode) == mode

ReactMode(isSp, mode) == IF ~isSp THEN "text" ELSE mode

ReactPipe(isSp, st, mode, pipe) ==
  LET m == ReactMode(isSp, mode)
  IN IF isSp /\ st = "active" /\ m = "voice" /\ pipe = "null" THEN "connecting"
     ELSE IF (~isSp \/ m = "text") /\ pipe # "null" THEN "null"
     ELSE pipe

FlushCore(mode, pipe) ==
  /\ speakerMode' = ReactMode(isSpeaker', mode)
  /\ speakerPipecat' = ReactPipe(isSpeaker', classroomState', mode, pipe)

\* new PipecatClient(): setupWebSocketInterception patches window.WebSocket
\* once and resets the two per-connection flags on every construction.
PipecatConstructed == [wsIntercepted |-> TRUE, configSent |-> FALSE,
                       textListenerAttached |-> FALSE]

\* connectSpeakerPipeline starts a client with empty text state;
\* disconnectSpeakerPipeline clears speakerBotText.
FlushText(pipe) ==
  /\ speakerBotText' = IF pipe # "null" /\ speakerPipecat' = "null"
                         THEN <<>> ELSE speakerBotText
  /\ currentBotText' = IF pipe = "null" /\ speakerPipecat' = "connecting"
                         THEN <<>> ELSE currentBotText

Flush(mode, pipe) ==
  /\ FlushCore(mode, pipe)
  /\ pipecatGlobals' = IF pipe = "null" /\ speakerPipecat' = "connecting"
                        THEN PipecatConstructed ELSE pipecatGlobals
  /\ FlushText(pipe)

\* The reactive statements after an explicit disconnectSpeakerPipeline() call.
FlushDisconnected ==
  /\ FlushCore(speakerMode, "null")
  /\ speakerBotText' = <<>>
  /\ UNCHANGED <<pipecatGlobals, currentBotText>>

\* ── Initial state ─────────────────────────────────────────────────
HandoffInit ==
  /\ hRoom = [c \in {1, 2} |-> ClassroomRoom({1, 2}, 1, <<>>, NullId)]
  /\ hSelf = [c \in {1, 2} |-> [user_id |-> c, mode |-> "text_only", is_speaker |-> c = 1]]
  /\ hIsSpeaker = [c \in {1, 2} |-> c = 1]
  /\ hChan = [c \in {1, 2} |-> <<>>]
  /\ hSrv = [speaker_id |-> 1, inbox |-> <<>>, stage |-> "start"]
  /\ hPc = [c \in {1, 2} |-> Idle]
  /\ hPoll = [c \in {1, 2} |-> 0]

Init ==
  /\ classroomState = "lobby"
  /\ classroomRoom = Null
  /\ classroomSelf = Null
  /\ classroomMessages = <<>>
  /\ classroomWs = NullId
  /\ classroomError = ""
  /\ classroomTopics = <<>>
  /\ isHandRaised = FALSE
  /\ currentLessonTopic = ""
  /\ isSpeaker = FALSE
  /\ sockets = [s \in 1..MaxSockets |-> "NONE"]
  /\ failing = {}
  /\ sent = <<>>
  /\ member = [s \in 1..MaxSockets |-> "none"]
  /\ timers = {}
  /\ pollInterval = NullId
  /\ pollInFlight = 0
  /\ audioContext = "null"
  /\ audioQueue = <<>>
  /\ isPlayingAudio = FALSE
  /\ blobPending = 0
  /\ resumePending = 0
  /\ sourcesPlaying = 0
  /\ userMode = "text_only"
  /\ speakerMode = "text"
  /\ speakerPipecat = "null"
  /\ pipecatGlobals = [wsIntercepted |-> FALSE, configSent |-> FALSE,
                       textListenerAttached |-> FALSE]
  /\ speakerBotText = <<>>
  /\ currentBotText = <<>>
  /\ wrapped = {}
  /\ textListeners = {}
  /\ bridgeSent = <<>>
  /\ roomStream = NoStream
  /\ pc = Idle
  /\ lastOp = "init"
  /\ left = FALSE
  /\ HandoffInit

\* ── Store updaters of handleWsMessage ──────────────────────────────
TokenChangedRoomSwapped(r, spk) ==
  IF r = Null THEN r
  ELSE IF r.speaker_id # NullId THEN r ELSE [r EXCEPT !.speaker_id = spk]

TokenChangedRoom(r, spk) ==
  IF r = Null THEN r ELSE [r EXCEPT !.speaker_id = spk]

TokenChangedSelf(s, spk) ==
  IF s = Null THEN s ELSE [s EXCEPT !.is_speaker = (s.user_id = spk)]

TokenResponseSelf(s, granted) ==
  IF granted /\ s # Null THEN [s EXCEPT !.is_speaker = TRUE] ELSE s

UserJoinedRoom(r, u) ==
  IF r = Null THEN r
  ELSE IF \E i \in DOMAIN r.users : r.users[i].user_id = u.user_id THEN r
  ELSE [r EXCEPT !.users = Append(@, u)]

UserLeftRoom(r, uid) ==
  IF r = Null THEN r
  ELSE [r EXCEPT !.users = SelectSeq(@, LAMBDA u : u.user_id # uid)]

\* ── Listener audio playback ────────────────────────────────────────
ensureAudioContext(ctx) == IF ctx = "null" THEN {"running", "suspended"} ELSE {ctx}

\* playNextChunk, with c the context ensureAudioContext yields.
playNextChunk(q, ctx, c) ==
  IF q = <<>> THEN [q |-> q, playing |-> FALSE, ctx |-> ctx, resume |-> 0, started |-> 0]
  ELSE IF c = "suspended"
    THEN [q |-> q, playing |-> TRUE, ctx |-> c, resume |-> 1, started |-> 0]
    ELSE [q |-> Tail(q), playing |-> TRUE, ctx |-> c, resume |-> 0, started |-> 1]

queueAudioChunk(q, playing, ctx, c) ==
  IF playing THEN [q |-> Append(q, 1), playing |-> TRUE, ctx |-> ctx, resume |-> 0, started |-> 0]
  ELSE playNextChunk(Append(q, 1), ctx, c)

ApplyAudio(a) ==
  /\ audioQueue' = a.q
  /\ isPlayingAudio' = a.playing
  /\ audioContext' = a.ctx
  /\ resumePending' = resumePending + a.resume
  /\ sourcesPlaying' = sourcesPlaying + a.started

\* ── Views ─────────────────────────────────────────────────────────
ActiveView == classroomState = "active" /\ classroomRoom # Null /\ classroomSelf # Null

LobbyView == ~ActiveView /\ classroomState \notin {"history", "dashboard", "settings"}

SocketOpen(s) == s # NullId /\ sockets[s] = "OPEN"

\* The server sends room events on a socket only between its 'joined' and the
\* end of that membership (kick or close).
Member(s) == sockets[s] = "OPEN" /\ member[s] = "in"

\* ── handleJoinRoom ────────────────────────────────────────────────
\* new WebSocket(url) for a url containing '/ws' (the room url ends in /ws, as
\* the bridge url does): once window.WebSocket is patched the socket is wrapped,
\* and the first such socket after a PipecatClient construction gets the
\* interceptor's message listener.
WebSocketCreated(n) ==
  IF pipecatGlobals.wsIntercepted
    THEN /\ wrapped' = wrapped \cup {n}
         /\ IF ~pipecatGlobals.textListenerAttached
              THEN /\ textListeners' = textListeners \cup {n}
                   /\ pipecatGlobals' = [pipecatGlobals EXCEPT !.textListenerAttached = TRUE]
              ELSE /\ textListeners' = textListeners \ {n}
                   /\ UNCHANGED pipecatGlobals
    ELSE /\ wrapped' = wrapped \ {n}
         /\ textListeners' = textListeners \ {n}
         /\ UNCHANGED pipecatGlobals

handleJoinRoom ==
  /\ pc = Idle /\ LobbyView
  /\ \E n \in 1..MaxSockets :
       /\ sockets[n] = "NONE"
       /\ \A m \in 1..MaxSockets : m < n => sockets[m] # "NONE"
       /\ sockets' = [sockets EXCEPT ![n] = "CONNECTING"]
       /\ classroomWs' = n
       /\ timers' = timers \cup {n}
       /\ pollInterval' = n
       /\ WebSocketCreated(n)
  /\ classroomState' = "joining"
  /\ classroomError' = ""
  /\ IF userMode = "text_and_audio"
       THEN audioContext' \in ensureAudioContext(audioContext)
       ELSE audioContext' = audioContext
  /\ lastOp' = "other" /\ left' = FALSE
  /\ UNCHANGED <<classroomRoom, classroomSelf, classroomMessages, classroomTopics,
                 isHandRaised, currentLessonTopic, failing, sent, member, pollInFlight,
                 audioQueue, isPlayingAudio, blobPending, resumePending,
                 sourcesPlaying, userMode, pc, handoffVars, bridgeSent,
                 speakerBotText, currentBotText>>
  /\ roomStream' = NoStream
  /\ Derive /\ FlushCore(speakerMode, speakerPipecat)

\* The 'open' listener the patched constructor registers ahead of ws.onopen:
\* the first socket to open after a PipecatClient was constructed sends config.
InterceptedOpen(isWrapped) == isWrapped /\ ~pipecatGlobals.configSent

\* ws.onopen
WsOpen(s) ==
  /\ pc = Idle /\ sockets[s] = "CONNECTING"
  /\ sockets' = [sockets EXCEPT ![s] = "OPEN"]
  /\ IF InterceptedOpen(s \in wrapped)
       THEN /\ sent' = sent \o <<[sock |-> s, type |-> "config"],
                                 [sock |-> s, type |-> "join"]>>
            /\ pipecatGlobals' = [pipecatGlobals EXCEPT !.configSent = TRUE]
       ELSE /\ sent' = Append(sent, [sock |-> s, type |-> "join"])
            /\ UNCHANGED pipecatGlobals
  /\ lastOp' = "other"
  /\ UNCHANGED <<storeVars, failing, member, pollVars, audioVars, speakerMode,
                 speakerPipecat, speakerBotText, currentBotText, userMode, pc,
                 left, handoffVars, interceptVars>>

\* ── handleWsMessage ───────────────────────────────────────────────
Joined(s, d) ==
  /\ pc = Idle /\ sockets[s] = "OPEN" /\ member[s] = "none"
  /\ \E i \in DOMAIN sent : sent[i] = [sock |-> s, type |-> "join"]
  /\ member' = [member EXCEPT ![s] = "in"]
  /\ classroomRoom' = d.room
  /\ classroomSelf' = d.you
  /\ classroomMessages' = d.recent_messages
  /\ userMode' = d.you.mode
  /\ classroomState' = "active"
  /\ lastOp' = "other"
  /\ UNCHANGED <<classroomWs, classroomError, classroomTopics, isHandRaised,
                 currentLessonTopic, sockets, failing, sent, pollVars, audioVars,
                 pc, left, handoffVars, interceptVars>>
  /\ Derive /\ Flush(speakerMode, speakerPipecat)

JoinedInputs(snaps, modes) ==
  {[room |-> r,
    you |-> [user_id |-> Self, mode |-> m, is_speaker |-> r.speaker_id = Self],
    recent_messages |-> <<>>] : r \in snaps, m \in modes}

\* token_changed, first store write: classroomRoom.update
TokenChanged(s, spk) ==
  /\ pc = Idle /\ Member(s)
  /\ classroomRoom' = TokenChangedRoom(classroomRoom, spk)
  /\ pc' = [at |-> "token_changed", speaker_id |-> spk]
  /\ lastOp' = "other"
  /\ UNCHANGED <<classroomState, classroomSelf, classroomMessages, classroomWs,
                 classroomError, classroomTopics, isHandRaised, currentLessonTopic,
                 sockVars, pollVars, audioVars, pipeVars, userMode, left,
                 handoffVars, interceptVars>>
  /\ Derive

\* token_changed, second store write: classroomSelf.update
TokenChangedEnd ==
  /\ pc # Idle
  /\ classroomSelf' = TokenChangedSelf(classroomSelf, pc.speaker_id)
  /\ pc' = Idle
  /\ UNCHANGED <<classroomState, classroomRoom, classroomMessages, classroomWs,
                 classroomError, classroomTopics, isHandRaised, currentLessonTopic,
                 sockVars, pollVars, audioVars, userMode, lastOp, left,
                 handoffVars, interceptVars>>
  /\ Derive /\ Flush(speakerMode, speakerPipecat)

TokenResponse(s, granted) ==
  /\ pc = Idle /\ Member(s)
  /\ \E i \in DOMAIN sent : sent[i] = [sock |-> s, type |-> "request_token"]
  /\ classroomSelf' = TokenResponseSelf(classroomSelf, granted)
  /\ lastOp' = IF granted THEN "other" ELSE "token_rejected"
  /\ UNCHANGED <<classroomState, classroomRoom, classroomMessages, classroomWs,
                 classroomError, classroomTopics, isHandRaised, currentLessonTopic,
                 sockVars, pollVars, audioVars, userMode, pc, left, handoffVars, interceptVars>>
  /\ Derive /\ Flush(speakerMode, speakerPipecat)

\* A user_joined payload: the joining user carries the speaker flag only if the
\* token events seen so far leave the token free or name that user.
UserJoinedInputs ==
  {u \in [user_id : Users, is_speaker : BOOLEAN] :
     u.is_speaker => /\ classroomRoom # Null
                     /\ classroomRoom.speaker_id \in {NullId, u.user_id}}

UserJoined(s, u) ==
  /\ pc = Idle /\ Member(s)
  /\ classroomRoom' = UserJoinedRoom(classroomRoom, u)
  /\ lastOp' = "other"
  /\ UNCHANGED <<classroomState, classroomSelf, classroomMessages, classroomWs,
                 classroomError, classroomTopics, isHandRaised, currentLessonTopic,
                 sockVars, pollVars, audioVars, userMode, pc, left, handoffVars, interceptVars>>
  /\ Derive /\ Flush(speakerMode, speakerPipecat)

UserLeft(s, uid) ==
  /\ pc = Idle /\ Member(s)
  /\ classroomRoom' = UserLeftRoom(classroomRoom, uid)
  /\ lastOp' = "other"
  /\ UNCHANGED <<classroomState, classroomSelf, classroomMessages, classroomWs,
                 classroomError, classroomTopics, isHandRaised, currentLessonTopic,
                 sockVars, pollVars, audioVars, userMode, pc, left, handoffVars, interceptVars>>
  /\ Derive /\ Flush(speakerMode, speakerPipecat)

\* case 'error'
WsErrorMessage(s, text) ==
  /\ pc = Idle /\ Member(s)
  /\ classroomError' = text
  /\ lastOp' = "other"
  /\ UNCHANGED <<classroomState, classroomRoom, classroomSelf, classroomMessages,
                 classroomWs, classroomTopics, isHandRaised, currentLessonTopic,
                 isSpeaker, sockVars, pollVars, audioVars, pipeVars, userMode, pc,
                 left, handoffVars, interceptVars>>

\* ── Room poll (setInterval callback of handleJoinRoom) ─────────────
\* The callback starts getRoom() whenever the state is active; max only caps
\* the number of requests the model lets be outstanding.
PollTickUpTo(t, max) ==
  /\ pc = Idle /\ t \in timers
  /\ classroomState = "active" /\ classroomRoom # Null
  /\ pollInFlight < max
  /\ pollInFlight' = pollInFlight + 1
  /\ lastOp' = "other"
  /\ UNCHANGED <<storeVars, sockVars, timers, pollInterval, audioVars, pipeVars,
                 userMode, pc, left, handoffVars, interceptVars>>

PollTick(t) == PollTickUpTo(t, MaxPolls)

\* getRoom() resolved: classroomRoom.set(updated)
PollResponse(r) ==
  /\ pc = Idle /\ pollInFlight > 0
  /\ pollInFlight' = pollInFlight - 1
  /\ classroomRoom' = r
  /\ lastOp' = "other"
  /\ UNCHANGED <<classroomState, classroomSelf, classroomMessages, classroomWs,
                 classroomError, classroomTopics, isHandRaised, currentLessonTopic,
                 sockVars, timers, pollInterval, audioVars, userMode, pc, left,
                 handoffVars, interceptVars>>
  /\ Derive /\ Flush(speakerMode, speakerPipecat)

\* getRoom() rejected: swallowed by the empty catch
PollFailed ==
  /\ pc = Idle /\ pollInFlight > 0
  /\ pollInFlight' = pollInFlight - 1
  /\ lastOp' = "other"
  /\ UNCHANGED <<storeVars, sockVars, timers, pollInterval, audioVars, pipeVars,
                 userMode, pc, left, handoffVars, interceptVars>>


\* ── Token and hand-raise commands ──────────────────────────────────
\* const ws = $classroomWs; if (ws && ws.readyState === OPEN) ws.send(...)
SendFrame(type) ==
  sent' = IF SocketOpen(classroomWs)
          THEN Append(sent, [sock |-> classroomWs, type |-> type])
          ELSE sent

SendOnly(type) ==
  /\ pc = Idle /\ ActiveView /\ Len(sent) < MaxSent
  /\ SendFrame(type)
  /\ lastOp' = "other"
  /\ UNCHANGED <<storeVars, sockets, failing, member, pollVars, audioVars, pipeVars,
                 userMode, pc, left, handoffVars, interceptVars>>

\* requestToken with an optimistic local grant
requestTokenOptimistic ==
  /\ pc = Idle /\ ActiveView /\ Len(sent) < MaxSent
  /\ SendFrame("request_token")
  /\ classroomSelf' = TokenResponseSelf(classroomSelf, TRUE)
  /\ lastOp' = "other"
  /\ UNCHANGED <<classroomState, classroomRoom, classroomMessages, classroomWs,
                 classroomError, classroomTopics, isHandRaised, currentLessonTopic,
                 isSpeaker, sockets, failing, member, pollVars, audioVars, pipeVars,
                 userMode, pc, left, handoffVars, interceptVars>>

requestToken == SendOnly("request_token")

releaseToken == SendOnly("release_token")

passToken == SendOnly("pass_token")

handleAcknowledgeHand == SendOnly("hand_acknowledge")

handleDismissHand == SendOnly("hand_dismiss")

\* ── handleLeaveRoom ───────────────────────────────────────────────
\* clearInterval, stopAudioPlayback, audioContext.close, disconnectSpeakerPipeline,
\* resetClassroom.  A source that was playing when its context is closed may
\* or may not still deliver onended.
LeaveRoom ==
  /\ timers' = timers \ {pollInterval}
  /\ pollInterval' = NullId
  /\ audioQueue' = <<>>
  /\ isPlayingAudio' = FALSE
  /\ audioContext' = "null"
  /\ sourcesPlaying' \in (IF audioContext # "null" THEN {0, sourcesPlaying}
                                                   ELSE {sourcesPlaying})
  /\ classroomState' = "lobby"
  /\ classroomRoom' = Null
  /\ classroomSelf' = Null
  /\ classroomMessages' = <<>>
  /\ classroomTopics' = <<>>
  /\ isHandRaised' = FALSE
  /\ currentLessonTopic' = ""
  /\ IF classroomWs # NullId /\ sockets[classroomWs] \in {"CONNECTING", "OPEN"}
       THEN /\ sockets' = [sockets EXCEPT ![classroomWs] = "CLOSING"]
            /\ failing' = IF sockets[classroomWs] = "CONNECTING"
                           THEN failing \cup {classroomWs} ELSE failing
       ELSE UNCHANGED <<sockets, failing>>
  /\ classroomWs' = NullId
  /\ UNCHANGED <<blobPending, resumePending>>
  /\ Derive /\ FlushDisconnected

handleLeaveRoom ==
  /\ pc = Idle /\ ActiveView
  /\ LeaveRoom
  /\ classroomError' = ""
  /\ lastOp' = "leave" /\ left' = TRUE
  /\ UNCHANGED <<sent, member, pollInFlight, userMode, pc, handoffVars, interceptVars>>

\* kicked that only reports the reason
KickedErrorOnly(s, text) ==
  /\ pc = Idle /\ Member(s)
  /\ member' = [member EXCEPT ![s] = "out"]
  /\ classroomError' = text
  /\ lastOp' = "kicked"
  /\ UNCHANGED <<classroomState, classroomRoom, classroomSelf, classroomMessages,
                 classroomWs, classroomTopics, isHandRaised, currentLessonTopic,
                 isSpeaker, sockets, failing, sent, pollVars, audioVars, pipeVars,
                 userMode, pc, left, handoffVars, interceptVars>>

\* case 'kicked': classroomError.set(...); handleLeaveRoom()
Kicked(s, text) ==
  /\ pc = Idle /\ Member(s)
  /\ member' = [member EXCEPT ![s] = "out"]
  /\ LeaveRoom
  /\ classroomError' = ""
  /\ lastOp' = "kicked" /\ left' = TRUE
  /\ UNCHANGED <<sent, pollInFlight, userMode, pc, handoffVars, interceptVars>>

\* ── Socket events ─────────────────────────────────────────────────
\* ws.onclose after a clean close (server close, or close() on an open socket)
WsClose(s) ==
  /\ pc = Idle /\ sockets[s] \in {"OPEN", "CLOSING"} /\ s \notin failing
  /\ sockets' = [sockets EXCEPT ![s] = "CLOSED"]
  /\ member' = [member EXCEPT ![s] = "out"]
  /\ IF classroomState = "active"
       THEN /\ classroomState' = "lobby"
            /\ classroomRoom' = Null
            /\ classroomSelf' = Null
            /\ classroomWs' = NullId
            /\ lastOp' = "ws_close_active"
            /\ Derive /\ FlushDisconnected
       ELSE /\ lastOp' = "other"
            /\ UNCHANGED <<classroomState, classroomRoom, classroomSelf, classroomWs,
                           isSpeaker, pipeVars>>
  /\ UNCHANGED <<classroomMessages, classroomError, classroomTopics, isHandRaised,
                 currentLessonTopic, failing, sent, pollVars, audioVars, userMode,
                 pc, left, handoffVars, interceptVars>>

\* ws.onerror followed by ws.onclose (connection failure, or close() while
\* CONNECTING): onerror leaves classroomState 'error', so onclose does nothing.
WsFail(s) ==
  /\ pc = Idle
  /\ \/ sockets[s] \in {"CONNECTING", "OPEN"}
     \/ sockets[s] = "CLOSING" /\ s \in failing
  /\ sockets' = [sockets EXCEPT ![s] = "CLOSED"]
  /\ failing' = failing \ {s}
  /\ member' = [member EXCEPT ![s] = "out"]
  /\ classroomError' = "WebSocket connection error"
  /\ classroomState' = "error"
  /\ lastOp' = "other"
  /\ UNCHANGED <<classroomRoom, classroomSelf, classroomMessages, classroomWs,
                 classroomTopics, isHandRaised, currentLessonTopic, sent, pollVars,
                 audioVars, userMode, pc, left, handoffVars, interceptVars>>
  /\ Derive /\ Flush(speakerMode, speakerPipecat)

\* ── Binary frames and audio callbacks ──────────────────────────────
AudioBounded ==
  /\ Len(audioQueue') <= MaxAudio
  /\ resumePending' <= MaxAudio
  /\ sourcesPlaying' <= MaxAudio + 1

WsBinary(s, kind) ==
  /\ pc = Idle /\ Member(s)
  /\ IF userMode = "text_and_audio" /\ ~isSpeaker
       THEN IF kind = "arraybuffer"
            THEN /\ \E c \in ensureAudioContext(audioContext) :
                       ApplyAudio(queueAudioChunk(audioQueue, isPlayingAudio, audioContext, c))
                 /\ AudioBounded
                 /\ UNCHANGED blobPending
            ELSE /\ blobPending < MaxAudio
                 /\ blobPending' = blobPending + 1
                 /\ UNCHANGED <<audioContext, audioQueue, isPlayingAudio, resumePending,
                                sourcesPlaying>>
       ELSE UNCHANGED audioVars
  /\ lastOp' = "other"
  /\ UNCHANGED <<storeVars, sockVars, pollVars, pipeVars, userMode, pc, left,
                 handoffVars, interceptVars>>

\* event.data.arrayBuffer().then((buf) => queueAudioChunk(buf))
BlobLoaded ==
  /\ pc = Idle /\ blobPending > 0
  /\ blobPending' = blobPending - 1
  /\ \E c \in ensureAudioContext(audioContext) :
        ApplyAudio(queueAudioChunk(audioQueue, isPlayingAudio, audioContext, c))
  /\ AudioBounded
  /\ lastOp' = "other"
  /\ UNCHANGED <<storeVars, sockVars, pollVars, pipeVars, userMode, pc, left,
                 handoffVars, interceptVars>>

\* source.onended = () => playNextChunk()
SourceEnded ==
  /\ pc = Idle /\ sourcesPlaying > 0
  /\ \E c \in ensureAudioContext(audioContext) :
        LET a == playNextChunk(audioQueue, audioContext, c)
        IN /\ audioQueue' = a.q
           /\ isPlayingAudio' = a.playing
           /\ audioContext' = a.ctx
           /\ resumePending' = resumePending + a.resume
           /\ sourcesPlaying' = sourcesPlaying - 1 + a.started
  /\ AudioBounded
  /\ lastOp' = "other"
  /\ UNCHANGED <<storeVars, sockVars, pollVars, blobPending, pipeVars, userMode, pc,
                 left, handoffVars, interceptVars>>

\* ctx.resume().then(() => playNextChunk()): the context is running afterwards;
\* a context closed in the meantime rejects the promise (logged only).
ResumeSettled ==
  /\ pc = Idle /\ resumePending > 0
  /\ IF audioContext = "null"
       THEN /\ resumePending' = resumePending - 1
            /\ UNCHANGED <<audioContext, audioQueue, isPlayingAudio, sourcesPlaying>>
       ELSE LET a == playNextChunk(audioQueue, "running", "running")
            IN /\ audioQueue' = a.q
               /\ isPlayingAudio' = a.playing
               /\ audioContext' = a.ctx
               /\ resumePending' = resumePending - 1 + a.resume
               /\ sourcesPlaying' = sourcesPlaying + a.started
  /\ AudioBounded
  /\ lastOp' = "other"
  /\ UNCHANGED <<storeVars, sockVars, pollVars, blobPending, pipeVars, userMode, pc,
                 left, handoffVars, interceptVars>>

\* ── Playback and input mode ────────────────────────────────────────
handleSetPlaybackMode(newMode) ==
  /\ pc = Idle /\ ActiveView /\ Len(sent) < MaxSent
  /\ userMode' = newMode
  /\ IF newMode = "text_only"
       THEN audioQueue' = <<>> /\ isPlayingAudio' = FALSE
       ELSE UNCHANGED <<audioQueue, isPlayingAudio>>
  /\ SendFrame("set_mode")
  /\ lastOp' = "other"
  /\ UNCHANGED <<storeVars, sockets, failing, member, pollVars, audioContext, blobPending,
                 resumePending, sourcesPlaying, pipeVars, pc, left, handoffVars, interceptVars>>

handleToggleMode(newMode) ==
  /\ pc = Idle /\ ActiveView /\ isSpeaker
  /\ lastOp' = "other"
  /\ UNCHANGED <<storeVars, sockVars, pollVars, audioVars, userMode, pc, left,
                 handoffVars, interceptVars>>
  /\ Flush(newMode, speakerPipecat)

\* PipecatClient.connect: devices and health check passed, the SDK transport
\* creates the bridge WebSocket (url ending in /ws).
BridgeSock == MaxSockets + 1

PipecatSocketCreated ==
  /\ pc = Idle /\ speakerPipecat = "connecting"
  /\ speakerPipecat' = "opening"
  /\ WebSocketCreated(BridgeSock)
  /\ bridgeSent' = <<>>
  /\ lastOp' = "other"
  /\ UNCHANGED <<storeVars, sockVars, pollVars, audioVars, speakerMode, userMode,
                 pc, left, handoffVars, speakerBotText, currentBotText, roomStream>>

\* the bridge socket opens: await speakerPipecat.connect(...) settles
PipecatConnected ==
  /\ pc = Idle /\ speakerPipecat = "opening"
  /\ speakerPipecat' = "connected"
  /\ IF InterceptedOpen(BridgeSock \in wrapped)
       THEN /\ bridgeSent' = Append(bridgeSent, "config")
            /\ pipecatGlobals' = [pipecatGlobals EXCEPT !.configSent = TRUE]
       ELSE UNCHANGED <<bridgeSent, pipecatGlobals>>
  /\ lastOp' = "other"
  /\ UNCHANGED <<storeVars, sockVars, pollVars, audioVars, speakerMode, userMode,
                 pc, left, handoffVars, wrapped, textListeners, speakerBotText,
                 currentBotText, roomStream>>

\* connect() fails (devices, health check, socket error) or the bridge drops:
\* PipecatClient catches the error and disconnects itself; it does not rethrow,
\* so speakerPipecat keeps the dead client.
PipecatFailed ==
  /\ pc = Idle /\ speakerPipecat \in {"connecting", "opening", "connected"}
  /\ speakerPipecat' = "failed"
  /\ lastOp' = "other"
  /\ UNCHANGED <<storeVars, sockVars, pollVars, audioVars, speakerMode,
                 pipecatGlobals, speakerBotText, currentBotText, userMode, pc,
                 left, handoffVars, interceptVars>>


\* ── Sibling views ─────────────────────────────────────────────────
Siblings == {"history", "dashboard", "settings"}

\* handleViewHistory / handleViewDashboard / handleViewSettings: dispatched by
\* the nav tabs of ClassroomLobby, which is rendered whenever no other view is.
handleView(v) ==
  /\ pc = Idle /\ LobbyView
  /\ classroomState' = v
  /\ lastOp' = "other"
  /\ UNCHANGED <<classroomRoom, classroomSelf, classroomMessages, classroomWs,
                 classroomError, classroomTopics, isHandRaised, currentLessonTopic,
                 sockVars, pollVars, audioVars, userMode, pc, left, handoffVars, interceptVars>>
  /\ Derive /\ Flush(speakerMode, speakerPipecat)

handleBackToLobby ==
  /\ pc = Idle /\ classroomState \in Siblings
  /\ classroomState' = "lobby"
  /\ lastOp' = "other"
  /\ UNCHANGED <<classroomRoom, classroomSelf, classroomMessages, classroomWs,
                 classroomError, classroomTopics, isHandRaised, currentLessonTopic,
                 sockVars, pollVars, audioVars, userMode, pc, left, handoffVars, interceptVars>>
  /\ Derive /\ Flush(speakerMode, speakerPipecat)


\* ── Handoff scenario: clients A = 1 and B = 2 in one room ──────────
\* Each client runs the same token_changed / token_response / poll handlers
\* on its own stores; the server relays commands in arrival order.
A == 1
B == 2
Clients == {A, B}

mainVars == <<storeVars, sockVars, pollVars, audioVars, pipeVars, userMode, pc,
              lastOp, left, interceptVars>>

HBroadcast(chan, msg) == [c \in Clients |-> Append(chan[c], msg)]

\* releaseToken on client A
HReleaseToken ==
  /\ hSrv.stage = "start"
  /\ hSrv' = [hSrv EXCEPT !.stage = "released",
                          !.inbox = Append(@, [from |-> A, type |-> "release_token"])]
  /\ UNCHANGED <<mainVars, hRoom, hSelf, hIsSpeaker, hChan, hPc, hPoll>>

\* requestToken on client B
HRequestToken ==
  /\ hSrv.stage = "released"
  /\ hSrv' = [hSrv EXCEPT !.stage = "requested",
                          !.inbox = Append(@, [from |-> B, type |-> "request_token"])]
  /\ UNCHANGED <<mainVars, hRoom, hSelf, hIsSpeaker, hChan, hPc, hPoll>>

\* The server takes the next command: a release frees the token, a request
\* for the free token is granted; every change is broadcast as token_changed.
HServer ==
  /\ hSrv.inbox # <<>>
  /\ LET m == Head(hSrv.inbox)
     IN IF m.type = "release_token"
        THEN /\ hSrv' = [hSrv EXCEPT !.inbox = Tail(@), !.speaker_id = NullId]
             /\ hChan' = HBroadcast(hChan, [type |-> "token_changed", speaker_id |-> NullId])
        ELSE /\ hSrv.speaker_id = NullId
             /\ hSrv' = [hSrv EXCEPT !.inbox = Tail(@), !.speaker_id = m.from]
             /\ hChan' = HBroadcast(
                   [hChan EXCEPT ![m.from] = Append(@, [type |-> "token_response", granted |-> TRUE])],
                   [type |-> "token_changed", speaker_id |-> m.from])
  /\ UNCHANGED <<mainVars, hRoom, hSelf, hIsSpeaker, hPc, hPoll>>

HDerive == hIsSpeaker' = [c \in Clients |-> isSpeakerDerived(hRoom'[c], hSelf'[c])]

\* handleWsMessage on client c: token_changed (first store write) or token_response
HDeliver(c) ==
  /\ hPc[c] = Idle /\ hChan[c] # <<>>
  /\ hChan' = [hChan EXCEPT ![c] = Tail(@)]
  /\ LET m == Head(hChan[c])
     IN IF m.type = "token_changed"
        THEN /\ hRoom' = [hRoom EXCEPT ![c] = TokenChangedRoom(@, m.speaker_id)]
             /\ hPc' = [hPc EXCEPT ![c] = [at |-> "token_changed", speaker_id |-> m.speaker_id]]
             /\ UNCHANGED hSelf
        ELSE /\ hSelf' = [hSelf EXCEPT ![c] = TokenResponseSelf(@, m.granted)]
             /\ UNCHANGED <<hRoom, hPc>>
  /\ UNCHANGED <<mainVars, hSrv, hPoll>>
  /\ HDerive

\* token_changed on client c, second store write
HTokenChangedEnd(c) ==
  /\ hPc[c] # Idle
  /\ hSelf' = [hSelf EXCEPT ![c] = TokenChangedSelf(@, hPc[c].speaker_id)]
  /\ hPc' = [hPc EXCEPT ![c] = Idle]
  /\ UNCHANGED <<mainVars, hRoom, hChan, hSrv, hPoll>>
  /\ HDerive

\* room poll on client c
HPollTick(c) ==
  /\ hPc[c] = Idle /\ hPoll[c] < MaxPolls
  /\ hPoll' = [hPoll EXCEPT ![c] = @ + 1]
  /\ UNCHANGED <<mainVars, hRoom, hSelf, hIsSpeaker, hChan, hSrv, hPc>>

HPollResponse(c) ==
  /\ hPc[c] = Idle /\ hPoll[c] > 0
  /\ hPoll' = [hPoll EXCEPT ![c] = @ - 1]
  /\ hRoom' = [hRoom EXCEPT ![c] = ClassroomRoom(Clients, hSrv.speaker_id, <<>>, NullId)]
  /\ UNCHANGED <<mainVars, hSelf, hChan, hSrv, hPc>>
  /\ HDerive

HandoffSettled ==
  /\ hSrv.stage = "requested" /\ hSrv.inbox = <<>>
  /\ \A c \in Clients : hChan[c] = <<>> /\ hPc[c] = Idle /\ hPoll[c] = 0

\* ── Specifications ────────────────────────────────────────────────
FloorSnapshots == RoomSnapshots({NullId})

NextFloor ==
  \/ handleJoinRoom
  \/ \E s \in 1..MaxSockets : WsOpen(s)
  \/ \E s \in 1..MaxSockets : \E d \in JoinedInputs(FloorSnapshots, {userMode}) : Joined(s, d)
  \/ \E s \in 1..MaxSockets : \E spk \in Users \cup {NullId} : TokenChanged(s, spk)
  \/ TokenChangedEnd
  \/ \E s \in 1..MaxSockets : \E g \in BOOLEAN : TokenResponse(s, g)
  \/ \E s \in 1..MaxSockets : \E u \in UserJoinedInputs : UserJoined(s, u)
  \/ \E s \in 1..MaxSockets : \E uid \in Users \ {Self} : UserLeft(s, uid)
  \/ \E t \in 1..MaxSockets : PollTick(t)
  \/ \E r \in FloorSnapshots : PollResponse(r)
  \/ PollFailed
  \/ requestToken
  \/ releaseToken
  \/ passToken
  \/ handleAcknowledgeHand
  \/ handleDismissHand

SpecFloor == Init /\ [][NextFloor]_vars

LifeSnapshots == {ClassroomRoom({Self}, spk, <<>>, NullId) : spk \in {NullId, Self}}

NextLife ==
  \/ handleJoinRoom
  \/ \E s \in 1..MaxSockets : WsOpen(s)
  \/ \E s \in 1..MaxSockets : \E d \in JoinedInputs(LifeSnapshots, Modes) : Joined(s, d)
  \/ \E s \in 1..MaxSockets : Kicked(s, "You were removed from the room")
  \/ \E s \in 1..MaxSockets : WsErrorMessage(s, "Unknown error")
  \/ \E s \in 1..MaxSockets : WsClose(s)
  \/ \E s \in 1..MaxSockets : WsFail(s)
  \/ \E s \in 1..MaxSockets : \E k \in {"arraybuffer", "blob"} : WsBinary(s, k)
  \/ BlobLoaded
  \/ SourceEnded
  \/ ResumeSettled
  \/ \E t \in 1..MaxSockets : PollTick(t)
  \/ \E r \in LifeSnapshots : PollResponse(r)
  \/ PollFailed
  \/ handleLeaveRoom
  \/ \E m \in Modes : handleSetPlaybackMode(m)
  \/ \E m \in {"voice", "text"} : handleToggleMode(m)
  \/ PipecatSocketCreated
  \/ PipecatConnected

SpecLife == Init /\ [][NextLife]_vars

NextHandoff ==
  \/ HReleaseToken
  \/ HRequestToken
  \/ HServer
  \/ \E c \in Clients : HDeliver(c)
  \/ \E c \in Clients : HTokenChangedEnd(c)
  \/ \E c \in Clients : HPollTick(c)
  \/ \E c \in Clients : HPollResponse(c)

SpecHandoff == Init /\ [][NextHandoff]_vars

NextNav ==
  \/ handleJoinRoom
  \/ \E s \in 1..MaxSockets : WsOpen(s)
  \/ \E s \in 1..MaxSockets : \E d \in JoinedInputs(LifeSnapshots, {userMode}) : Joined(s, d)
  \/ \E s \in 1..MaxSockets : Kicked(s, "You were removed from the room")
  \/ \E s \in 1..MaxSockets : WsClose(s)
  \/ \E s \in 1..MaxSockets : WsFail(s)
  \/ handleLeaveRoom
  \/ \E v \in Siblings : handleView(v)
  \/ handleBackToLobby

SpecNav == Init /\ [][NextNav]_vars

NextBridge ==
  \/ handleJoinRoom
  \/ \E s \in 1..MaxSockets : WsOpen(s)
  \/ \E s \in 1..MaxSockets : \E d \in JoinedInputs(LifeSnapshots, {userMode}) : Joined(s, d)
  \/ \E s \in 1..MaxSockets : \E spk \in {NullId, Self} : TokenChanged(s, spk)
  \/ TokenChangedEnd
  \/ \E m \in {"voice", "text"} : handleToggleMode(m)
  \/ PipecatSocketCreated
  \/ PipecatConnected
  \/ PipecatFailed
  \/ \E s \in 1..MaxSockets : WsClose(s)
  \/ handleLeaveRoom

SpecBridge == Init /\ [][NextBridge]_vars

NextPoll ==
  \/ handleJoinRoom
  \/ \E s \in 1..MaxSockets : WsOpen(s)
  \/ \E s \in 1..MaxSockets : \E d \in JoinedInputs(FloorSnapshots, {userMode}) : Joined(s, d)
  \/ \E s \in 1..MaxSockets : \E spk \in Users \cup {NullId} : TokenChanged(s, spk)
  \/ TokenChangedEnd
  \/ \E t \in 1..MaxSockets : PollTickUpTo(t, MaxOverlap)
  \/ \E r \in FloorSnapshots : PollResponse(r)
  \/ PollFailed

SpecPoll == Init /\ [][NextPoll]_vars

Spec == SpecFloor

TypeOK == classroomState \in {"lobby", "joining", "active", "history", "dashboard", "settings", "error"}


\* ── Properties ────────────────────────────────────────────────────
SpeakerFlags(r) == {i \in DOMAIN r.users : r.users[i].is_speaker}

\* C1: the derived isSpeaker is true exactly when room and self are both set
\* and room.speaker_id equals self.user_id, at every store notification,
\* including the one between the two store writes of token_changed.
C1_IsSpeakerMatchesSpeakerId ==
  isSpeaker = (IF classroomRoom = Null \/ classroomSelf = Null THEN FALSE
               ELSE classroomRoom.speaker_id = classroomSelf.user_id)

\* token_changed naming the local user has written the room store but not yet
\* the self store: isSpeaker is already true while self.is_speaker is stale.
C1_Witness ==
  /\ pc # Idle /\ pc.speaker_id = Self
  /\ classroomRoom # Null /\ classroomSelf # Null
  /\ isSpeaker /\ ~classroomSelf.is_speaker

\* C2: at most one entry of room.users has its is_speaker flag set.
C2_AtMostOneSpeakerFlag ==
  classroomRoom # Null => Cardinality(SpeakerFlags(classroomRoom)) <= 1

\* C3: room.token_queue never contains room.speaker_id.
C3_QueueExcludesSpeaker ==
  classroomRoom # Null => classroomRoom.speaker_id \notin Range(classroomRoom.token_queue)

CommandTypes == {"request_token", "release_token", "pass_token",
                 "hand_acknowledge", "hand_dismiss"}

SpeakerIdentity ==
  <<IF classroomRoom = Null THEN NullId ELSE classroomRoom.speaker_id,
    IF classroomSelf = Null THEN FALSE ELSE classroomSelf.is_speaker,
    isSpeaker>>

\* C5: a token or hand command sends exactly one frame, on the open current
\* socket, and changes no store; a rejected token_response changes no store;
\* speaker identity changes only in a step that applies joined, token_changed,
\* a granted token_response or a room snapshot.
C5_CommandsOnlySend ==
  /\ [][(Len(sent') > Len(sent) /\ sent'[Len(sent')].type \in CommandTypes) =>
          /\ UNCHANGED storeVars
          /\ sent' = Append(sent, sent'[Len(sent')])
          /\ sent'[Len(sent')].sock = classroomWs
          /\ sockets[classroomWs] = "OPEN"]_vars
  /\ [][lastOp' = "token_rejected" => UNCHANGED storeVars]_vars
  /\ [][SpeakerIdentity' # SpeakerIdentity =>
          \/ \E s \in 1..MaxSockets : \E d \in JoinedInputs(FloorSnapshots, Modes) : Joined(s, d)
          \/ \E s \in 1..MaxSockets : \E spk \in Users \cup {NullId} : TokenChanged(s, spk)
          \/ TokenChangedEnd
          \/ \E s \in 1..MaxSockets : TokenResponse(s, TRUE)
          \/ \E r \in FloorSnapshots : PollResponse(r)]_vars

\* A request_token frame was sent by a listener and the request was rejected.
C5_Witness ==
  /\ lastOp = "token_rejected"
  /\ \E i \in DOMAIN sent : sent[i].type = "request_token"
  /\ classroomSelf # Null /\ ~classroomSelf.is_speaker /\ ~isSpeaker

\* C6: the stored flag self.is_speaker equals the derived isSpeaker.
C6_StoredFlagEqualsDerived ==
  (pc = Idle /\ classroomSelf # Null) => classroomSelf.is_speaker = isSpeaker

PendingCallbacks ==
  \/ pollInFlight > 0 \/ blobPending > 0 \/ resumePending > 0 \/ sourcesPlaying > 0
  \/ \E s \in 1..MaxSockets : sockets[s] = "CLOSING"

LobbyReset ==
  /\ classroomState = "lobby"
  /\ classroomRoom = Null /\ classroomSelf = Null
  /\ classroomMessages = <<>>
  /\ classroomError = ""
  /\ classroomTopics = <<>>
  /\ ~isHandRaised
  /\ currentLessonTopic = ""
  /\ classroomWs = NullId
  /\ speakerPipecat = "null"
  /\ audioQueue = <<>>

\* C7: once handleLeaveRoom has run and pending callbacks have settled, the
\* controller is back in its initial lobby state.
C7_LeaveResetsEverything == (left /\ ~PendingCallbacks) => LobbyReset

UserStep ==
  \/ handleJoinRoom
  \/ handleLeaveRoom
  \/ \E m \in Modes : handleSetPlaybackMode(m)
  \/ \E m \in {"voice", "text"} : handleToggleMode(m)

\* C8: after handleLeaveRoom returns, no timer, promise continuation or socket
\* handler of an earlier join changes a classroom store or starts playback.
C8_NoHandlerAfterLeave ==
  [][(left /\ left' /\ ~UserStep) =>
       (UNCHANGED storeVars /\ sourcesPlaying' <= sourcesPlaying)]_vars

\* C9: the kicked handler ends in the state handleLeaveRoom leaves: poll timer
\* cleared, audio stopped and context closed, bridge disconnected, room socket
\* closed, stores reset, classroomState 'lobby'.
C9_KickedCleansUpLikeLeave ==
  [][lastOp' = "kicked" =>
       /\ pollInterval' = NullId /\ pollInterval \notin timers'
       /\ audioQueue' = <<>> /\ ~isPlayingAudio' /\ audioContext' = "null"
       /\ speakerPipecat' = "null"
       /\ classroomWs' = NullId
       /\ classroomWs # NullId => sockets'[classroomWs] \in {"CLOSING", "CLOSED"}
       /\ classroomState' = "lobby"
       /\ classroomRoom' = Null /\ classroomSelf' = Null
       /\ classroomMessages' = <<>> /\ classroomTopics' = <<>>
       /\ classroomError' = ""
       /\ ~isHandRaised' /\ currentLessonTopic' = ""]_vars

\* A kicked message was handled and the room socket is being closed by it.
C9_Witness ==
  /\ lastOp = "kicked"
  /\ \E s \in 1..MaxSockets : sockets[s] = "CLOSING"
  /\ classroomState = "lobby" /\ classroomWs = NullId

\* C10: an unexpected close while active returns to the lobby with room, self
\* and socket cleared and an error surfaced to the user, and a room socket is
\* created only by handleJoinRoom.
C10_CloseSurfacesReconnect ==
  /\ [](lastOp = "ws_close_active" =>
          /\ classroomState = "lobby"
          /\ classroomRoom = Null /\ classroomSelf = Null
          /\ classroomWs = NullId
          /\ classroomError # "")
  /\ [][(\E s \in 1..MaxSockets : sockets[s] = "NONE" /\ sockets'[s] # "NONE")
          => handleJoinRoom]_vars

\* C11: classroomState changes only along lobby -> joining, joining -> active,
\* active -> lobby, any state -> error, lobby -> history / dashboard / settings
\* (and back from those to lobby).
StateEdges ==
  {<<"lobby", "joining">>, <<"joining", "active">>, <<"active", "lobby">>}
    \cup {<<st, "error">> : st \in {"lobby", "joining", "active"} \cup Siblings}
    \cup {<<"lobby", v>> : v \in Siblings}
    \cup {<<v, "lobby">> : v \in Siblings}

C11_StateEdges ==
  [][classroomState' # classroomState =>
       <<classroomState, classroomState'>> \in StateEdges]_vars

FramesOn(s) == SelectSeq(sent, LAMBDA f : f.sock = s)

\* C12: handleJoinRoom opens exactly one room socket, and the frames the client
\* sends on a room socket start with its join message, sent exactly once when
\* the socket opens.
C12_JoinIsFirstFrame ==
  /\ [](\A s \in 1..MaxSockets :
          /\ sockets[s] = "OPEN" => FramesOn(s) # <<>>
          /\ FramesOn(s) # <<>> =>
                /\ FramesOn(s)[1].type = "join"
                /\ Cardinality({i \in DOMAIN FramesOn(s) : FramesOn(s)[i].type = "join"}) = 1)
  /\ [][handleJoinRoom =>
          Cardinality({s \in 1..MaxSockets : sockets[s] = "NONE" /\ sockets'[s] = "CONNECTING"}) = 1]_vars

\* C13: the room poll never has two getRoom() requests outstanding, and a
\* completed poll replaces the whole room record by the fetched snapshot.
C13_PollNeverOverlaps ==
  /\ [](pollInFlight <= 1)
  /\ [][(pollInFlight' < pollInFlight /\ classroomRoom' # classroomRoom) =>
          classroomRoom' \in FloorSnapshots]_vars

\* ── Message log ───────────────────────────────────────────────────
\* Texts are sequences of chunks: concatenation lengthens a text, replacement
\* need not.
Chunk == {"a"}
Texts == SeqsUpTo(Chunk, MaxText)
UserText == <<"q">>

ClassroomMessage(role, content, streaming, interrupted) ==
  [role |-> role, content |-> content, streaming |-> streaming,
   interrupted |-> interrupted]

addClassroomMessage(msgs, role, content) ==
  Append(msgs, ClassroomMessage(role, content, FALSE, FALSE))

\* last && last.role === 'assistant' && last._streaming
StreamingTail(msgs) ==
  msgs # <<>> /\ msgs[Len(msgs)].role = "assistant" /\ msgs[Len(msgs)].streaming

\* case 'bot_text': classroomMessages.update
BotTextMsgs(msgs, t) ==
  IF StreamingTail(msgs)
    THEN [msgs EXCEPT ![Len(msgs)].content = @ \o t]
    ELSE Append(msgs, ClassroomMessage("assistant", t, TRUE, FALSE))

\* case 'bot_text_complete': classroomMessages.update
BotTextCompleteMsgs(msgs, t, interrupted) ==
  IF StreamingTail(msgs)
    THEN [msgs EXCEPT ![Len(msgs)] =
            ClassroomMessage("assistant", IF t # <<>> THEN t ELSE @.content,
                             FALSE, interrupted)]
    ELSE IF t # <<>>
      THEN Append(msgs, ClassroomMessage("assistant", t, FALSE, interrupted))
      ELSE msgs

\* case 'bot_response': classroomMessages.update
BotResponseMsgs(msgs, t) ==
  IF StreamingTail(msgs)
    THEN [msgs EXCEPT ![Len(msgs)].content = t, ![Len(msgs)].streaming = FALSE]
    ELSE Append(msgs, ClassroomMessage("assistant", t, FALSE, FALSE))

\* The text state one message event works on.
TextState == [cur |-> currentBotText, sbt |-> speakerBotText,
              msgs |-> classroomMessages]

\* The subscriptions of connectSpeakerPipeline live until
\* disconnectSpeakerPipeline.
Subscribed == speakerPipecat # "null"

\* botTranscript.set({text: currentBotText}) and its subscriber
botTranscriptSet(ts, sub) ==
  IF sub /\ ts.cur # <<>> THEN [ts EXCEPT !.sbt = ts.cur] ELSE ts

\* botResponseComplete.set / botResponseInterrupted.set and their subscriber
botResponseSet(ts, sub) ==
  IF sub /\ ts.sbt # <<>>
    THEN [ts EXCEPT !.msgs = addClassroomMessage(@, "assistant", ts.sbt),
                    !.sbt = <<>>]
    ELSE ts

\* handleJsonMsg of the interceptor, type bot_text
InterceptBotText(ts, t, sub) ==
  IF t = <<>> THEN ts ELSE botTranscriptSet([ts EXCEPT !.cur = @ \o t], sub)

\* handleJsonMsg of the interceptor, type bot_text_complete
InterceptBotTextComplete(ts, t, sub) ==
  [botResponseSet(botTranscriptSet([ts EXCEPT !.cur = t], sub), sub)
     EXCEPT !.cur = <<>>]

\* case 'bot_text' of handleWsMessage on the text state
HandleBotText(ts, t) ==
  [ts EXCEPT !.msgs = BotTextMsgs(@, t), !.sbt = t]

\* case 'bot_text_complete' of handleWsMessage on the text state
HandleBotTextComplete(ts, t, interrupted) ==
  [ts EXCEPT !.msgs = BotTextCompleteMsgs(@, t, interrupted), !.sbt = <<>>]

ApplyText(ts) ==
  /\ classroomMessages' = ts.msgs
  /\ speakerBotText' = ts.sbt
  /\ currentBotText' = ts.cur

LogBounded ==
  /\ Len(classroomMessages') <= MaxMsgs
  /\ \A i \in DOMAIN classroomMessages' : Len(classroomMessages'[i].content) <= MaxText

TextBounded ==
  /\ LogBounded
  /\ Len(speakerBotText') <= MaxText
  /\ Len(currentBotText') <= MaxText

textFrame == <<classroomState, classroomRoom, classroomSelf, classroomWs,
               classroomError, classroomTopics, isHandRaised, currentLessonTopic,
               isSpeaker, sockets, failing, member, pollVars, audioVars, speakerMode,
               speakerPipecat, pipecatGlobals, userMode, pc, left, handoffVars,
               wrapped, textListeners, bridgeSent>>

\* Room socket, bot_text: the interceptor's listener (when this socket carries
\* it) was added before ws.onmessage and runs first.
BotText(s, t) ==
  /\ pc = Idle /\ Member(s)
  /\ LET i == IF s \in textListeners
                THEN InterceptBotText(TextState, t, Subscribed) ELSE TextState
     IN ApplyText(HandleBotText(i, t))
  /\ TextBounded
  /\ roomStream' = IF roomStream.open
                     THEN [roomStream EXCEPT !.text = @ \o t]
                     ELSE [open |-> TRUE, base |-> Len(classroomMessages), text |-> t]
  /\ lastOp' = "bot_text"
  /\ UNCHANGED <<textFrame, sent>>

\* Room socket, bot_text_complete
BotTextComplete(s, t, interrupted) ==
  /\ pc = Idle /\ Member(s)
  /\ LET i == IF s \in textListeners
                THEN InterceptBotTextComplete(TextState, t, Subscribed)
                ELSE TextState
     IN ApplyText(HandleBotTextComplete(i, t, interrupted))
  /\ TextBounded
  /\ roomStream' = NoStream
  /\ lastOp' = IF interrupted THEN "bot_text_interrupted" ELSE "bot_text_complete"
  /\ UNCHANGED <<textFrame, sent>>

\* Room socket, bot_response
BotResponse(s, t) ==
  /\ pc = Idle /\ Member(s)
  /\ classroomMessages' = BotResponseMsgs(classroomMessages, t)
  /\ LogBounded
  /\ lastOp' = "other"
  /\ UNCHANGED <<textFrame, sent, speakerBotText, currentBotText, roomStream>>

\* Room socket, transcription
Transcription(s) ==
  /\ pc = Idle /\ Member(s)
  /\ classroomMessages' = addClassroomMessage(classroomMessages, "user", UserText)
  /\ LogBounded
  /\ lastOp' = "other"
  /\ UNCHANGED <<textFrame, sent, speakerBotText, currentBotText, roomStream>>

handleSendMessage ==
  /\ pc = Idle /\ ActiveView /\ isSpeaker /\ Len(sent) < MaxSent
  /\ classroomMessages' = addClassroomMessage(classroomMessages, "user", UserText)
  /\ LogBounded
  /\ SendFrame("text_message")
  /\ lastOp' = "other"
  /\ UNCHANGED <<textFrame, speakerBotText, currentBotText, roomStream>>

handleTeacherAction ==
  /\ pc = Idle /\ ActiveView /\ isTeacherDerived(classroomRoom, classroomSelf)
  /\ Len(sent) < MaxSent
  /\ IF SocketOpen(classroomWs)
       THEN /\ classroomMessages' =
                 addClassroomMessage(classroomMessages, "user", UserText)
            /\ LogBounded
       ELSE UNCHANGED classroomMessages
  /\ SendFrame("teacher_action")
  /\ lastOp' = "other"
  /\ UNCHANGED <<textFrame, speakerBotText, currentBotText, roomStream>>

\* ── Bridge events ─────────────────────────────────────────────────
\* JSON messages of the bridge socket reach the client only through the
\* interceptor's listener.
BridgeHeard == speakerPipecat = "connected" /\ BridgeSock \in textListeners

BridgeBotText(t) ==
  /\ pc = Idle /\ BridgeHeard
  /\ ApplyText(InterceptBotText(TextState, t, Subscribed))
  /\ TextBounded
  /\ lastOp' = "other"
  /\ UNCHANGED <<textFrame, sent, roomStream>>

BridgeBotTextComplete(t, interrupted) ==
  /\ pc = Idle /\ BridgeHeard
  /\ ApplyText(InterceptBotTextComplete(TextState, t, Subscribed))
  /\ TextBounded
  /\ lastOp' = "bridge_complete"
  /\ UNCHANGED <<textFrame, sent, roomStream>>

\* userTranscript subscriber, final transcript
BridgeUserTranscript ==
  /\ pc = Idle /\ speakerPipecat = "connected" /\ Len(sent) < MaxSent
  /\ classroomMessages' = addClassroomMessage(classroomMessages, "user", UserText)
  /\ LogBounded
  /\ SendFrame("speaker_transcript")
  /\ lastOp' = "other"
  /\ UNCHANGED <<textFrame, speakerBotText, currentBotText, roomStream>>

\* onUserStartedSpeaking: botTranscript.set({text: ''}) is ignored by the
\* subscriber.
UserStartedSpeaking ==
  /\ pc = Idle /\ speakerPipecat = "connected"
  /\ currentBotText' = <<>>
  /\ lastOp' = "other"
  /\ UNCHANGED <<textFrame, sent, classroomMessages, speakerBotText, roomStream>>

LogSnapshots == {ClassroomRoom({Self}, Self, <<>>, Self)}

NextLog ==
  \/ handleJoinRoom
  \/ \E s \in 1..MaxSockets : WsOpen(s)
  \/ \E s \in 1..MaxSockets, d \in JoinedInputs(LogSnapshots, {"text_only"}) : Joined(s, d)
  \/ \E s \in 1..MaxSockets, t \in SeqsUpTo(Chunk, 1) : BotText(s, t)
  \/ \E s \in 1..MaxSockets, t \in Texts, i \in BOOLEAN : BotTextComplete(s, t, i)
  \/ \E s \in 1..MaxSockets, t \in Texts : BotResponse(s, t)
  \/ \E s \in 1..MaxSockets : Transcription(s)
  \/ handleSendMessage
  \/ handleTeacherAction

SpecLog == Init /\ [][NextLog]_vars

\* The speaker's bridge turn next to the room socket's text events.
NextTurn ==
  \/ handleJoinRoom
  \/ \E s \in 1..MaxSockets : WsOpen(s)
  \/ \E s \in 1..MaxSockets, d \in JoinedInputs(LogSnapshots, {"text_only"}) : Joined(s, d)
  \/ \E s \in 1..MaxSockets, t \in SeqsUpTo(Chunk, 1) : BotText(s, t)
  \/ \E s \in 1..MaxSockets, t \in Texts, i \in BOOLEAN : BotTextComplete(s, t, i)
  \/ \E m \in {"voice", "text"} : handleToggleMode(m)
  \/ PipecatSocketCreated
  \/ PipecatConnected
  \/ \E t \in SeqsUpTo(Chunk, 1) : BridgeBotText(t)
  \/ \E t \in Texts, i \in BOOLEAN : BridgeBotTextComplete(t, i)
  \/ BridgeUserTranscript
  \/ UserStartedSpeaking

SpecTurn == Init /\ [][NextTurn]_vars

\* C14: in every reachable state at most one message of the log is streaming,
\* and a streaming message is the last entry, whatever the order of bot_text,
\* bot_text_complete, bot_response, transcription and local appends.
C14_OneStreamingTail ==
  \A i \in DOMAIN classroomMessages :
    classroomMessages[i].streaming => i = Len(classroomMessages)

\* C15: a room-socket stream bot_text t1..tn, bot_text_complete adds exactly
\* one message to the log: every bot_text after the first extends that message
\* and after bot_text_complete its content is t1 \o ... \o tn.
C15_StreamIsOneMessage ==
  [][/\ (lastOp' = "bot_text" /\ roomStream.open) =>
          /\ Len(classroomMessages') = roomStream.base + 1
          /\ classroomMessages'[roomStream.base + 1].content = roomStream'.text
     /\ (lastOp' \in {"bot_text_complete", "bot_text_interrupted"} /\ roomStream.open) =>
          /\ Len(classroomMessages') = roomStream.base + 1
          /\ classroomMessages'[roomStream.base + 1].content = roomStream.text
          /\ ~classroomMessages'[roomStream.base + 1].streaming]_vars

\* C16: an interrupted bot response is finalized as a message of its own: after
\* a room-socket bot_text_complete with interrupted set no message of the
\* stream is left streaming, a bridge completion with partial text appends
\* one finalized assistant message, a finalized message never changes while it
\* is in the log, and the first bot_text after a completion appends a message.
C16_InterruptedIsFinal ==
  [][/\ (lastOp' = "bot_text_interrupted" /\ roomStream.open) =>
          \A i \in DOMAIN classroomMessages' : ~classroomMessages'[i].streaming
     /\ (lastOp' = "bridge_complete" /\ currentBotText # <<>>) =>
          /\ Len(classroomMessages') = Len(classroomMessages) + 1
          /\ ~StreamingTail(classroomMessages')
     /\ \A i \in DOMAIN classroomMessages \cap DOMAIN classroomMessages' :
          ~classroomMessages[i].streaming => classroomMessages'[i] = classroomMessages[i]
     /\ (lastOp' = "bot_text" /\ ~roomStream.open) =>
          /\ Len(classroomMessages') = Len(classroomMessages) + 1
          /\ StreamingTail(classroomMessages')]_vars

\* C17: while the bridge is connected, a bot_text or bot_text_complete of the
\* room socket leaves speakerBotText, the text the bridge's turn-complete or
\* interrupted event will finalize, unchanged.
C17_RoomEventsKeepBridgeText ==
  [][(/\ lastOp' \in {"bot_text", "bot_text_complete", "bot_text_interrupted"}
      /\ speakerPipecat = "connected")
       => speakerBotText' = speakerBotText]_vars

\* C18: in every settled state the bridge client exists and is connecting or
\* connected exactly when the user is the speaker and speakerMode is 'voice'.
C18_BridgeIffSpeakerVoice ==
  pc = Idle =>
    (speakerPipecat \in {"connecting", "opening", "connected"}
       <=> (isSpeaker /\ speakerMode = "voice"))

\* C19: config is never sent on a room socket, and a connected bridge socket
\* has carried exactly one frame, the config of this activation.
C19_ConfigOnlyOnBridge ==
  /\ \A i \in DOMAIN sent : sent[i].type # "config"
  /\ speakerPipecat = "connected" => bridgeSent = <<"config">>

\* ── Listener audio ────────────────────────────────────────────────
\* case 'mode_changed'
ModeChanged(s, newMode) ==
  /\ pc = Idle /\ Member(s)
  /\ classroomSelf' = IF classroomSelf = Null THEN Null
                      ELSE [classroomSelf EXCEPT !.mode = newMode]
  /\ userMode' = newMode
  /\ IF newMode = "text_only"
       THEN audioQueue' = <<>> /\ isPlayingAudio' = FALSE
       ELSE UNCHANGED <<audioQueue, isPlayingAudio>>
  /\ lastOp' = "other"
  /\ UNCHANGED <<classroomState, classroomRoom, classroomMessages, classroomWs,
                 classroomError, classroomTopics, isHandRaised, currentLessonTopic,
                 sockVars, pollVars, audioContext, blobPending, resumePending,
                 sourcesPlaying, pc, left, handoffVars, interceptVars>>
  /\ Derive /\ Flush(speakerMode, speakerPipecat)

AudioSnapshots == {ClassroomRoom({Self, 2}, 2, <<>>, NullId)}

\* A listener's session without leaving: the audio context is never closed, so
\* every started source plays until its onended.
NextAudio ==
  \/ handleJoinRoom
  \/ \E s \in 1..MaxSockets : WsOpen(s)
  \/ \E s \in 1..MaxSockets, d \in JoinedInputs(AudioSnapshots, Modes) : Joined(s, d)
  \/ \E s \in 1..MaxSockets : \E k \in {"arraybuffer", "blob"} : WsBinary(s, k)
  \/ BlobLoaded
  \/ SourceEnded
  \/ ResumeSettled
  \/ \E m \in Modes : handleSetPlaybackMode(m)
  \/ \E s \in 1..MaxSockets, m \in Modes : ModeChanged(s, m)

SpecAudio == Init /\ [][NextAudio]_vars

\* C20: at no time are two buffer sources playing: a chunk is started only
\* after the chunk before it has ended, whatever the order of chunk arrivals,
\* playback-mode switches and onended / resume callbacks.
C20_OneSourceAtATime == sourcesPlaying <= 1

\* A listener who joined with text_and_audio: the preference becomes text_only
\* only through handleSetPlaybackMode or mode_changed.
NextMute ==
  \/ handleJoinRoom
  \/ \E s \in 1..MaxSockets : WsOpen(s)
  \/ \E s \in 1..MaxSockets, d \in JoinedInputs(AudioSnapshots, {"text_and_audio"}) :
        Joined(s, d)
  \/ \E s \in 1..MaxSockets : \E k \in {"arraybuffer", "blob"} : WsBinary(s, k)
  \/ BlobLoaded
  \/ SourceEnded
  \/ ResumeSettled
  \/ \E m \in Modes : handleSetPlaybackMode(m)
  \/ \E s \in 1..MaxSockets, m \in Modes : ModeChanged(s, m)

SpecMute == Init /\ [][NextMute]_vars

\* C21: a switch of the playback preference to text_only by
\* handleSetPlaybackMode or mode_changed leaves the queue empty, and while the
\* preference stays text_only no chunk is enqueued and no source is started,
\* chunks whose frames arrived before the switch included.
C21_TextOnlyIsSilent ==
  [][/\ (userMode = "text_and_audio" /\ userMode' = "text_only") => audioQueue' = <<>>
     /\ (userMode = "text_only" /\ userMode' = "text_only") =>
          /\ Len(audioQueue') <= Len(audioQueue)
          /\ sourcesPlaying' <= sourcesPlaying]_vars

\* ── Suspended audio context ───────────────────────────────────────
\* ctx.resume() of playNextChunk rejects on an open context (the audio device
\* cannot be acquired): the catch handler only logs.
ResumeRejected ==
  /\ pc = Idle /\ resumePending > 0 /\ audioContext # "null"
  /\ resumePending' = resumePending - 1
  /\ lastOp' = "other"
  /\ UNCHANGED <<storeVars, sockVars, pollVars, audioContext, audioQueue,
                 isPlayingAudio, blobPending, sourcesPlaying, pipeVars, userMode, pc,
                 left, handoffVars, interceptVars>>

\* The unawaited audioContext.resume() of ensureAudioContext takes effect: the
\* browser lets the context run.
ContextResumed ==
  /\ pc = Idle /\ audioContext = "suspended"
  /\ audioContext' = "running"
  /\ lastOp' = "other"
  /\ UNCHANGED <<storeVars, sockVars, pollVars, audioQueue, isPlayingAudio,
                 blobPending, resumePending, sourcesPlaying, pipeVars, userMode, pc,
                 left, handoffVars, interceptVars>>

\* A listener's session without flush: no mode switch, no leave.
NextDrain ==
  \/ handleJoinRoom
  \/ \E s \in 1..MaxSockets : WsOpen(s)
  \/ \E s \in 1..MaxSockets, d \in JoinedInputs(AudioSnapshots, {"text_and_audio"}) :
        Joined(s, d)
  \/ \E s \in 1..MaxSockets : \E k \in {"arraybuffer", "blob"} : WsBinary(s, k)
  \/ BlobLoaded
  \/ SourceEnded
  \/ ResumeSettled
  \/ ResumeRejected
  \/ ContextResumed

\* Promise continuations and onended callbacks that are due do run, and a
\* suspended context is eventually allowed to run.
SpecDrain ==
  /\ Init /\ [][NextDrain]_vars
  /\ WF_vars(BlobLoaded) /\ WF_vars(SourceEnded) /\ WF_vars(ResumeSettled)
  /\ WF_vars(ContextResumed)

\* C22: a chunk that is queued is eventually taken from the queue and played,
\* also when it was queued while the context was suspended.
C22_QueuedIsEventuallyPlayed ==
  (audioQueue # <<>>) ~> (audioQueue = <<>>)

\* ── Hand raises ───────────────────────────────────────────────────
HandRaise(id, user, status) == [id |-> id, user_id |-> user, status |-> status]

\* r.hand_raises || []
HandRaisesOf(r) == IF "hand_raises" \in DOMAIN r THEN r.hand_raises ELSE <<>>

\* { ...r, hand_raises: raises }
WithHandRaises(r, raises) ==
  [f \in DOMAIN r \cup {"hand_raises"} |->
     IF f = "hand_raises" THEN raises ELSE r[f]]

HandFrames(type) == {i \in DOMAIN sent : sent[i].type = type}

\* function handleRaiseHand(question)
RaiseHand ==
  /\ pc = Idle /\ ActiveView /\ ~isSpeaker /\ Len(sent) < MaxFrames
  /\ IF SocketOpen(classroomWs)
       THEN /\ sent' = Append(sent, [sock |-> classroomWs, type |-> "hand_raise"])
            /\ isHandRaised' = TRUE
       ELSE UNCHANGED <<sent, isHandRaised>>
  /\ lastOp' = "other"
  /\ UNCHANGED <<classroomState, classroomRoom, classroomSelf, classroomMessages,
                 classroomWs, classroomError, classroomTopics, currentLessonTopic,
                 isSpeaker, sockets, failing, member, pollVars, audioVars, pipeVars,
                 userMode, pc, left, handoffVars, interceptVars>>

\* A hand button that dispatches 'raiseHand' whatever isHandRaised is.
handleRaiseHandAlways ==
  RaiseHand

\* The listener's hand button: isHandRaised ? dispatch('lowerHand')
\*                                          : dispatch('raiseHand', '')
handleRaiseHand ==
  /\ ~isHandRaised
  /\ RaiseHand

\* handleLowerHand, dispatched by the same button while it shows 'Lower Hand'
handleLowerHand ==
  /\ pc = Idle /\ ActiveView /\ ~isSpeaker /\ isHandRaised
  /\ Len(sent) < MaxFrames
  /\ IF SocketOpen(classroomWs)
       THEN /\ sent' = Append(sent, [sock |-> classroomWs, type |-> "hand_lower"])
            /\ isHandRaised' = FALSE
       ELSE UNCHANGED <<sent, isHandRaised>>
  /\ lastOp' = "other"
  /\ UNCHANGED <<classroomState, classroomRoom, classroomSelf, classroomMessages,
                 classroomWs, classroomError, classroomTopics, currentLessonTopic,
                 isSpeaker, sockets, failing, member, pollVars, audioVars, pipeVars,
                 userMode, pc, left, handoffVars, interceptVars>>

handFrame == <<classroomState, classroomSelf, classroomMessages, classroomWs,
               classroomError, classroomTopics, currentLessonTopic, sockVars,
               pollVars, audioVars, userMode, pc, left, handoffVars, interceptVars>>

SelfId == IF classroomSelf = Null THEN NullId ELSE classroomSelf.user_id

\* case 'hand_raised'
HandRaisedRoom(r, raise) ==
  IF r = Null THEN r
  ELSE LET raises == HandRaisesOf(r)
       IN WithHandRaises(r, IF \E i \in DOMAIN raises : raises[i].id = raise.id
                              THEN raises ELSE Append(raises, raise))

HandRaised(s, raise) ==
  /\ pc = Idle /\ Member(s)
  /\ classroomRoom' = HandRaisedRoom(classroomRoom, raise)
  /\ classroomRoom' # Null => Len(HandRaisesOf(classroomRoom')) <= MaxRaises
  /\ lastOp' = "other"
  /\ UNCHANGED <<handFrame, isHandRaised>>
  /\ Derive /\ Flush(speakerMode, speakerPipecat)

\* case 'hand_lowered'
HandLoweredRoom(r, user) ==
  IF r = Null THEN r
  ELSE WithHandRaises(r, SelectSeq(HandRaisesOf(r),
         LAMBDA hr : ~(hr.user_id = user /\ hr.status = "pending")))

HandLowered(s, user) ==
  /\ pc = Idle /\ Member(s)
  /\ classroomRoom' = HandLoweredRoom(classroomRoom, user)
  /\ isHandRaised' = IF user = SelfId THEN FALSE ELSE isHandRaised
  /\ lastOp' = "other"
  /\ UNCHANGED handFrame
  /\ Derive /\ Flush(speakerMode, speakerPipecat)

\* case 'hand_acknowledged' / case 'hand_dismissed': { ...hr, ...data.raise }
HandResolvedRoom(r, raise) ==
  IF r = Null THEN r
  ELSE LET raises == HandRaisesOf(r)
       IN WithHandRaises(r, [i \in DOMAIN raises |->
                               IF raises[i].id = raise.id THEN raise ELSE raises[i]])

HandResolved(s, raise) ==
  /\ pc = Idle /\ Member(s)
  /\ classroomRoom # Null =>
       \A i \in DOMAIN HandRaisesOf(classroomRoom) :
         HandRaisesOf(classroomRoom)[i].id = raise.id
           => HandRaisesOf(classroomRoom)[i].user_id = raise.user_id
  /\ classroomRoom' = HandResolvedRoom(classroomRoom, raise)
  /\ isHandRaised' = IF raise.user_id = SelfId THEN FALSE ELSE isHandRaised
  /\ lastOp' = "other"
  /\ UNCHANGED handFrame
  /\ Derive /\ Flush(speakerMode, speakerPipecat)

RaiseInputs(statuses) ==
  {HandRaise(id, u, st) : id \in 1..MaxRaises, u \in Users, st \in statuses}

NextHands ==
  \/ handleJoinRoom
  \/ \E s \in 1..MaxSockets : WsOpen(s)
  \/ \E s \in 1..MaxSockets, d \in JoinedInputs(AudioSnapshots, {"text_only"}) :
        Joined(s, d)
  \/ handleRaiseHand
  \/ handleLowerHand
  \/ \E s \in 1..MaxSockets, r \in RaiseInputs({"pending"}) : HandRaised(s, r)
  \/ \E s \in 1..MaxSockets, u \in Users : HandLowered(s, u)
  \/ \E s \in 1..MaxSockets, r \in RaiseInputs({"acknowledged", "dismissed"}) :
        HandResolved(s, r)

SpecHands == Init /\ [][NextHands]_vars

PendingOf(r, u) ==
  {i \in DOMAIN HandRaisesOf(r) :
     HandRaisesOf(r)[i].user_id = u /\ HandRaisesOf(r)[i].status = "pending"}

\* C24: in every state reached through hand_raised and hand_lowered events,
\* room.hand_raises holds at most one 'pending' entry for each user.
C24_OnePendingPerUser ==
  classroomRoom # Null =>
    \A u \in Users : Cardinality(PendingOf(classroomRoom, u)) <= 1

\* ── Unknown and malformed text frames ─────────────────────────────
\* Message types outside handleWsMessage's cases; the interceptor's
\* handleJsonMsg knows the first two.
UnknownTypes == {"user_transcript", "session_id", "future_type"}

\* ws.onmessage with a JSON text frame whose type falls to `default:`. A
\* listener the interceptor attached to this socket parses the frame too and
\* hands user_transcript to the active client, whose userTranscript subscriber
\* logs the text and sends speaker_transcript.
UnknownMessage(s, type) ==
  /\ pc = Idle /\ Member(s)
  /\ IF s \in textListeners /\ Subscribed /\ type = "user_transcript"
       THEN /\ Len(sent) < MaxFrames
            /\ classroomMessages' =
                 addClassroomMessage(classroomMessages, "user", UserText)
            /\ LogBounded
            /\ SendFrame("speaker_transcript")
       ELSE UNCHANGED <<classroomMessages, sent>>
  /\ lastOp' = "unknown_msg"
  /\ UNCHANGED <<textFrame, speakerBotText, currentBotText, roomStream>>

\* ws.onmessage with a text frame JSON.parse rejects: both the handler and
\* the interceptor's listener catch the error.
NonJsonText(s) ==
  /\ pc = Idle /\ Member(s)
  /\ lastOp' = "non_json"
  /\ UNCHANGED <<storeVars, sockVars, pollVars, audioVars, pipeVars, userMode,
                 pc, left, handoffVars, interceptVars>>

NextUnknown ==
  \/ handleJoinRoom
  \/ \E s \in 1..MaxSockets : WsOpen(s)
  \/ \E s \in 1..MaxSockets, d \in JoinedInputs(LogSnapshots, {"text_only"}) : Joined(s, d)
  \/ \E m \in {"voice", "text"} : handleToggleMode(m)
  \/ PipecatSocketCreated
  \/ PipecatConnected
  \/ PipecatFailed
  \/ \E s \in 1..MaxSockets : WsFail(s)
  \/ \E s \in 1..MaxSockets, type \in UnknownTypes : UnknownMessage(s, type)
  \/ \E s \in 1..MaxSockets : NonJsonText(s)

SpecUnknown == Init /\ [][NextUnknown]_vars

\* C25: a JSON message of unknown type and a text frame that is not JSON
\* leave every classroom store, the audio queue and the socket as they were.
C25_UnknownIsIgnored ==
  [][lastOp' \in {"unknown_msg", "non_json"} =>
       UNCHANGED <<storeVars, audioQueue, sockets>>]_vars

\* ── Speaker input mode ────────────────────────────────────────────
NextVoice ==
  \/ NextBridge
  \/ \E s \in 1..MaxSockets : WsFail(s)

SpecVoice == Init /\ [][NextVoice]_vars

\* C26: the speaker starts in text mode and voice is never started for them:
\* speakerMode is 'text' when isSpeaker turns true, and a bridge connection
\* begins only in the step in which the speaker switches from text to voice.
C26_NoAutoVoice ==
  [][/\ (~isSpeaker /\ isSpeaker') => speakerMode' = "text"
     /\ (speakerPipecat = "null" /\ speakerPipecat' # "null") =>
          /\ isSpeaker /\ isSpeaker'
          /\ speakerMode = "text" /\ speakerMode' = "voice"]_vars

\* The speaker chose voice and the bridge connection has begun.
C26_Witness ==
  /\ isSpeaker /\ classroomState = "active"
  /\ speakerMode = "voice" /\ speakerPipecat = "connecting"

\* ── Routing of bridge messages ────────────────────────────────────
\* The bridge socket of the connected client delivers {type:'bot_text'}.
\* Only a listener the interceptor attached to that socket hands the message
\* to __pipecatActiveClient; without one the frame reaches no client.
BridgeFrame(t) ==
  /\ pc = Idle /\ speakerPipecat = "connected"
  /\ IF BridgeSock \in textListeners
       THEN /\ ApplyText(InterceptBotText(TextState, t, Subscribed))
            /\ TextBounded
       ELSE UNCHANGED <<classroomMessages, speakerBotText, currentBotText>>
  /\ lastOp' = "bridge_text"
  /\ UNCHANGED <<textFrame, sent, roomStream>>

NextRoute ==
  \/ handleJoinRoom
  \/ \E s \in 1..MaxSockets : WsOpen(s)
  \/ \E s \in 1..MaxSockets, d \in JoinedInputs(LogSnapshots, {"text_only"}) : Joined(s, d)
  \/ \E m \in {"voice", "text"} : handleToggleMode(m)
  \/ PipecatSocketCreated
  \/ PipecatConnected
  \/ PipecatFailed
  \/ \E s \in 1..MaxSockets : WsFail(s)
  \/ \E t \in SeqsUpTo(Chunk, 1) \ {<<>>} : BridgeFrame(t)
  \/ \E t \in Texts, i \in BOOLEAN : BridgeBotTextComplete(t, i)

SpecRoute == Init /\ [][NextRoute]_vars

\* C27: a bot_text message received on the bridge socket reaches the client
\* that opened the socket: its text is appended to that client's
\* currentBotText and published through its botTranscript store.
C27_BridgeTextReachesOwner ==
  [][lastOp' = "bridge_text" =>
       /\ Len(currentBotText') = Len(currentBotText) + 1
       /\ speakerBotText' = currentBotText']_vars

\* C28: the close or error event of a room socket that is not the current one
\* (closed by a leave, or replaced by a later join) changes neither
\* classroomState, room, self, the message log nor classroomWs of the session
\* on the current socket.
C28_StaleSocketIsInert ==
  [][\A s \in 1..MaxSockets :
       (/\ classroomWs # NullId /\ s # classroomWs
        /\ sockets[s] # "CLOSED" /\ sockets'[s] = "CLOSED") =>
          UNCHANGED <<classroomState, classroomRoom, classroomSelf,
                      classroomMessages, classroomWs>>]_vars

\* C29: once the kicked message has been handled and the controller is back
\* in the lobby, classroomError holds the kick reason.
C29_KickReasonIsShown ==
  [][lastOp' = "kicked" =>
       /\ classroomState' = "lobby"
       /\ classroomError' = "You were removed from the room"]_vars

\* ── Per-session stores across sessions ────────────────────────────
Topics == {"t"}

\* case 'topic_suggestions'
TopicSuggestions(s, topics) ==
  /\ pc = Idle /\ Member(s)
  /\ classroomTopics' = topics
  /\ lastOp' = "other"
  /\ UNCHANGED <<classroomState, classroomRoom, classroomSelf, classroomMessages,
                 classroomWs, classroomError, isHandRaised, currentLessonTopic,
                 isSpeaker, sockVars, pollVars, audioVars, pipeVars, userMode, pc,
                 left, handoffVars, interceptVars>>

\* case 'lesson_topic_changed'
LessonTopicChanged(s, topic) ==
  /\ pc = Idle /\ Member(s)
  /\ currentLessonTopic' = topic
  /\ classroomRoom' =
       IF classroomRoom = Null THEN classroomRoom
       ELSE [f \in DOMAIN classroomRoom \cup {"current_lesson_topic"} |->
               IF f = "current_lesson_topic" THEN topic ELSE classroomRoom[f]]
  /\ lastOp' = "other"
  /\ UNCHANGED <<classroomState, classroomSelf, classroomMessages, classroomWs,
                 classroomError, classroomTopics, isHandRaised, sockVars, pollVars,
                 audioVars, userMode, pc, left, handoffVars, interceptVars>>
  /\ Derive /\ Flush(speakerMode, speakerPipecat)

NextRejoin ==
  \/ handleJoinRoom
  \/ \E s \in 1..MaxSockets : WsOpen(s)
  \/ \E s \in 1..MaxSockets, d \in JoinedInputs(AudioSnapshots, {"text_only"}) :
        Joined(s, d)
  \/ handleRaiseHand
  \/ handleLowerHand
  \/ \E s \in 1..MaxSockets, t \in Topics : TopicSuggestions(s, <<t>>)
  \/ \E s \in 1..MaxSockets, t \in Topics : LessonTopicChanged(s, t)
  \/ \E s \in 1..MaxSockets : WsClose(s)
  \/ \E s \in 1..MaxSockets : WsFail(s)
  \/ handleLeaveRoom
  \/ \E s \in 1..MaxSockets : Kicked(s, "You were removed from the room")

SpecRejoin == Init /\ [][NextRejoin]_vars

\* C30: when a joined event makes classroomState 'active', isHandRaised is
\* false and currentLessonTopic and classroomTopics are at their initial
\* values, however the earlier session ended.
C30_JoinedStartsFresh ==
  [][(classroomState # "active" /\ classroomState' = "active") =>
       /\ ~isHandRaised'
       /\ currentLessonTopic' = ""
       /\ classroomTopics' = <<>>]_vars
====
